---- MODULE Spec2Model ----
(***************************************************************************)
(* Model of scripts/preprocessing.py: ReviewPreprocessor, a linear batch   *)
(* pipeline over an in-memory table (a pandas DataFrame).                  *)
(*                                                                         *)
(* A table is a sequence of rows; a row is a function from the column      *)
(* names of the schema to cells.  A cell is NaN (the empty tuple) or       *)
(* Val(x) (the one-element tuple holding x).  Text is a sequence of code   *)
(* points.  A date string "YYYY-MM-DD HH:.." is the tuple <<y, m, d, h>>,  *)
(* whose lexicographic order is the order of the fixed-width string; a     *)
(* calendar date is the tuple <<y, m, d>>.                                 *)
(***************************************************************************)
EXTENDS Integers, Sequences, FiniteSets, TLC

\* ------------------------------------------------------------------ bounds
\* Largest number of rows of the loaded table.
MaxRows == 2
\* Longest input string of the text-cleaning specification.
MaxLen == 4

\* ------------------------------------------------------------------- cells
NaN == <<>>
Val(x) == <<x>>
isna(c) == Len(c) = 0
notna(c) == Len(c) = 1
V(c) == c[1]

\* Lexicographic order on tuples of integers of equal or different length
\* (the order of Python tuples, dates and fixed-width strings).
RECURSIVE TupleLess(_, _)
TupleLess(a, b) ==
    IF Len(b) = 0 THEN FALSE
    ELSE IF Len(a) = 0 THEN TRUE
    ELSE IF Head(a) < Head(b) THEN TRUE
    ELSE IF Head(a) > Head(b) THEN FALSE
    ELSE TupleLess(Tail(a), Tail(b))

\* -------------------------------------------------------------------- text
\* Code points: the ASCII whitespace matched by \s, and the Ethiopic block.
Whitespace == {9, 10, 11, 12, 13, 32}
Space == 32
AmharicLo == 4608
AmharicHi == 4991

\* str(NaN) is the three characters "nan".
str(c) == IF isna(c) THEN <<110, 97, 110>> ELSE V(c)

\* contains_amharic: re.search('[U+1200-U+137F]', str(text)).
contains_amharic(c) ==
    LET s == str(c) IN \E i \in 1..Len(s) : s[i] >= AmharicLo /\ s[i] <= AmharicHi

RECURSIVE lstrip(_)
lstrip(s) ==
    IF s = <<>> THEN <<>>
    ELSE IF Head(s) \in Whitespace THEN lstrip(Tail(s))
    ELSE s

RECURSIVE rstrip(_)
rstrip(s) ==
    IF s = <<>> THEN <<>>
    ELSE IF s[Len(s)] \in Whitespace THEN rstrip(SubSeq(s, 1, Len(s) - 1))
    ELSE s

\* text.strip()
strip(s) == lstrip(rstrip(s))

\* A plausible slip: the pattern '\s' in place of '\s+' (each whitespace
\* character becomes a space, runs are not collapsed).
RECURSIVE re_sub_each(_)
re_sub_each(s) ==
    IF s = <<>> THEN <<>>
    ELSE IF Head(s) \in Whitespace THEN <<Space>> \o re_sub_each(Tail(s))
    ELSE <<Head(s)>> \o re_sub_each(Tail(s))

\* re.sub(r'\s+', ' ', text): every maximal run of whitespace becomes one space.
RECURSIVE re_sub(_)
re_sub(s) ==
    IF s = <<>> THEN <<>>
    ELSE IF Head(s) \in Whitespace THEN <<Space>> \o re_sub(lstrip(Tail(s)))
    ELSE <<Head(s)>> \o re_sub(Tail(s))

\* clean_review_text(text), on a cell; the result is a string.
clean_review_text(c) ==
    IF isna(c) \/ c = Val(<<>>) THEN <<>>
    ELSE strip(re_sub(str(c)))

\* ------------------------------------------------------------------ tables
Range(s) == {s[i] : i \in 1..Len(s)}

RECURSIVE Mask(_, _)
Mask(s, keep) ==
    IF Len(s) = 0 THEN <<>>
    ELSE (IF Head(keep) THEN <<Head(s)>> ELSE <<>>) \o Mask(Tail(s), Tail(keep))

\* A frame: the ordered column names, the row labels and the rows.
Frame(cols, idx, rows) == [columns |-> cols, index |-> idx, rows |-> rows]
len(f) == Len(f.rows)
HasCol(f, c) == c \in Range(f.columns)

\* f[mask]: boolean indexing keeps the rows (and their labels) the mask selects.
Filter(f, keep) == Frame(f.columns, Mask(f.index, keep), Mask(f.rows, keep))

\* f[c] = values: an existing column is overwritten in place, a new one appended.
Assign(f, c, vals) ==
    Frame(IF HasCol(f, c) THEN f.columns ELSE Append(f.columns, c),
          f.index,
          [i \in 1..len(f) |->
              [k \in DOMAIN f.rows[i] \cup {c} |-> IF k = c THEN vals[i] ELSE f.rows[i][k]]])

\* f[cols]: projection onto a list of existing columns.
Project(f, cols) ==
    Frame(cols, f.index, [i \in 1..len(f) |-> [k \in Range(cols) |-> f.rows[i][k]]])

\* Series.fillna(default)
fillna(f, c, default) ==
    Assign(f, c, [i \in 1..len(f) |-> IF isna(f.rows[i][c]) THEN Val(default) ELSE f.rows[i][c]])

None == <<>>
Some(f) == <<f>>

\* --------------------------------------------------------------- constants
critical_cols == <<"review_text", "rating", "bank_name">>

output_columns ==
    <<"review_id", "review_text", "rating", "review_date", "review_year", "review_month",
      "bank_code", "bank_name", "user_name", "thumbs_up", "text_length", "source">>

sort_columns == <<"bank_code", "review_date">>

MinRating == 1
MaxRating == 5

Stages ==
    <<"load_data", "check_missing_data", "handle_missing_values", "normalize_dates",
      "clean_text", "remove_duplicates", "filter_non_english_reviews", "validate_ratings",
      "prepare_final_output", "save_data", "generate_report">>

StageNo(s) == CHOOSE i \in 1..Len(Stages) : Stages[i] = s

\* ------------------------------------------------------------------- dates
\* pd.to_datetime accepts a date string whose month and day exist.
Parseable(c) == isna(c) \/ (V(c)[2] \in 1..12 /\ V(c)[3] \in 1..31)
\* pd.to_datetime(...).dt.date: the time of day is dropped; NaN becomes NaT.
to_date(c) == IF isna(c) THEN NaN ELSE Val(SubSeq(V(c), 1, 3))
dt_year(c) == IF isna(c) THEN NaN ELSE Val(V(c)[1])
dt_month(c) == IF isna(c) THEN NaN ELSE Val(V(c)[2])

\* ------------------------------------------------------ DataFrame methods
\* A plausible slip: how='all', which drops a row only when the whole subset is NaN.
dropna_how_all(f, subset) ==
    Filter(f, [i \in 1..len(f) |-> \E c \in Range(subset) : notna(f.rows[i][c])])

\* DataFrame.dropna(subset=...): keeps the rows with no NaN in the subset.
dropna(f, subset) ==
    Filter(f, [i \in 1..len(f) |-> \A c \in Range(subset) : notna(f.rows[i][c])])

\* A plausible slip: keep=False, which drops every copy of a repeated row.
drop_duplicates_keep_false(f) ==
    Filter(f, [i \in 1..len(f) |-> ~ \E j \in 1..len(f) : j # i /\ f.rows[j] = f.rows[i]])

\* DataFrame.drop_duplicates(): keeps the first of the rows equal on every column.
drop_duplicates(f) ==
    Filter(f, [i \in 1..len(f) |-> ~ \E j \in 1..(i - 1) : f.rows[j] = f.rows[i]])

\* Comparisons of a numeric cell with a number; every comparison with NaN is false.
CellLt(c, n) == notna(c) /\ V(c) < n
CellGt(c, n) == notna(c) /\ V(c) > n
CellGe(c, n) == notna(c) /\ V(c) >= n
CellLe(c, n) == notna(c) /\ V(c) <= n

\* Order of two sort keys: integers by <, tuples (dates, strings) lexicographically.
KeyLess(col, a, b) == IF col = "bank_code" THEN a < b ELSE TupleLess(a, b)

\* sort_values(['bank_code', 'review_date'], ascending=[True, False]): whether
\* row a comes strictly before row b.  NaN keys are last in either direction.
AscBefore(col, a, b) == notna(a) /\ (isna(b) \/ KeyLess(col, V(a), V(b)))
\* A plausible slip: ascending=[True, True].
DescBefore_ascending(col, a, b) == notna(a) /\ (isna(b) \/ KeyLess(col, V(a), V(b)))
DescBefore(col, a, b) == notna(a) /\ (isna(b) \/ KeyLess(col, V(b), V(a)))
RowBefore(a, b) ==
    \/ AscBefore("bank_code", a["bank_code"], b["bank_code"])
    \/ /\ a["bank_code"] = b["bank_code"]
       /\ DescBefore("review_date", a["review_date"], b["review_date"])

\* The sort is stable: a row is placed before the first row it strictly precedes.
RECURSIVE InsertSorted(_, _, _)
InsertSorted(s, x, rows) ==
    IF Len(s) = 0 THEN <<x>>
    ELSE IF RowBefore(rows[x], rows[Head(s)]) THEN <<x>> \o s
    ELSE <<Head(s)>> \o InsertSorted(Tail(s), x, rows)

RECURSIVE SortPositions(_, _)
SortPositions(n, rows) ==
    IF n = 0 THEN <<>> ELSE InsertSorted(SortPositions(n - 1, rows), n, rows)

sort_values(f) ==
    LET p == SortPositions(len(f), f.rows)
    IN  Frame(f.columns, [i \in 1..len(f) |-> f.index[p[i]]], [i \in 1..len(f) |-> f.rows[p[i]]])

\* reset_index(drop=True): the labels become 0 .. n-1.
reset_index(f) == Frame(f.columns, [i \in 1..len(f) |-> i - 1], f.rows)

\* ------------------------------------------------------------------ stages
\* The table each stage leaves in self.df, given the table it finds there.

handle_missing_values_df(f) ==
    LET f1 == dropna(f, critical_cols)
        f2 == IF HasCol(f1, "user_name") THEN fillna(f1, "user_name", "Anonymous") ELSE f1
        f3 == IF HasCol(f2, "thumbs_up") THEN fillna(f2, "thumbs_up", 0) ELSE f2
    IN  IF HasCol(f3, "reply_content") THEN fillna(f3, "reply_content", "") ELSE f3

\* Whether the try block of normalize_dates runs to its end.
DatesConvert(f) ==
    /\ HasCol(f, "review_date")
    /\ \A i \in 1..len(f) : Parseable(f.rows[i]["review_date"])

normalize_dates_df(f) ==
    IF ~ DatesConvert(f) THEN f
    ELSE LET f1 == Assign(f, "review_date",
                          [i \in 1..len(f) |-> to_date(f.rows[i]["review_date"])])
             f2 == Assign(f1, "review_year",
                          [i \in 1..len(f) |-> dt_year(f1.rows[i]["review_date"])])
         IN  Assign(f2, "review_month",
                    [i \in 1..len(f) |-> dt_month(f2.rows[i]["review_date"])])

\* clean_text up to the removal of the empty reviews.
cleaned_df(f) ==
    LET f1 == Assign(f, "review_text",
                     [i \in 1..len(f) |-> Val(clean_review_text(f.rows[i]["review_text"]))])
    IN  Filter(f1, [i \in 1..len(f1) |-> Len(V(f1.rows[i]["review_text"])) > 0])

\* self.df['text_length'] = self.df['review_text'].str.len()
text_length_df(f) ==
    Assign(f, "text_length", [i \in 1..len(f) |->
        IF isna(f.rows[i]["review_text"]) THEN NaN ELSE Val(Len(V(f.rows[i]["review_text"])))])

\* A plausible slip: text_length computed before the text is cleaned.
clean_text_length_first(f) == cleaned_df(text_length_df(f))

clean_text_df(f) == text_length_df(cleaned_df(f))

filter_non_english_df(f) ==
    Filter(f, [i \in 1..len(f) |-> ~ contains_amharic(f.rows[i]["review_text"])])

\* A plausible slip: only the upper bound is tested.
invalid_ratings_upper_only(f) ==
    Filter(f, [i \in 1..len(f) |-> CellGt(f.rows[i]["rating"], MaxRating)])

invalid_ratings(f) ==
    Filter(f, [i \in 1..len(f) |->
        CellLt(f.rows[i]["rating"], MinRating) \/ CellGt(f.rows[i]["rating"], MaxRating)])

validate_ratings_df(f) ==
    IF len(invalid_ratings(f)) > 0
    THEN Filter(f, [i \in 1..len(f) |->
             CellGe(f.rows[i]["rating"], MinRating) /\ CellLe(f.rows[i]["rating"], MaxRating)])
    ELSE f

\* A plausible slip: the comprehension run over the table's columns, which keeps
\* the table's order.
existing_columns_in_table_order(f) == SelectSeq(f.columns, LAMBDA c : c \in Range(output_columns))

\* output_columns = [col for col in output_columns if col in self.df.columns]
existing_output_columns(f) == SelectSeq(output_columns, LAMBDA c : HasCol(f, c))

projected_df(f) == Project(f, existing_output_columns(f))

\* sort_values raises KeyError when a sort column is not in the table.
SortRaises(f) == \E c \in Range(sort_columns) : ~ HasCol(f, c)

prepare_final_output_df(f) == reset_index(sort_values(projected_df(f)))

\* ------------------------------------------------------------------- state
VARIABLES
    source,     \* the file at input_path: its header and its rows
    pc,         \* the stage process() runs next, or "done"
    result,     \* "running", or how process() ended: "True", "False", "raised"
    df,         \* self.df: None or Some(frame)
    stats,      \* self.stats
    history,    \* the stages run so far: how each ended and self.df as it left it
    text_in,    \* text cleaning alone: the input cell
    text_pc,    \* text cleaning alone: "input", "once", "twice"
    text_out    \* text cleaning alone: the results of the applications so far

vars == <<source, pc, result, df, stats, history, text_in, text_pc, text_out>>
pipeline_vars == <<source, pc, result, df, stats, history>>
text_vars == <<text_in, text_pc, text_out>>

self_df == df[1]
Set(key, value) == (key :> value) @@ stats
NextStage(s) == IF StageNo(s) = Len(Stages) THEN "done" ELSE Stages[StageNo(s) + 1]

\* A stage that returns normally and leaves the table f and the statistics st.
Completes(stage, f, st) ==
    /\ pc' = NextStage(stage)
    /\ result' = IF NextStage(stage) = "done" THEN "True" ELSE "running"
    /\ df' = Some(f)
    /\ stats' = st
    /\ history' = Append(history, [stage |-> stage, outcome |-> "returned", df |-> Some(f)])
    /\ UNCHANGED <<source, text_vars>>

\* process() ends inside a stage: it returns False or an exception leaves it.
Ends(stage, how, d, st) ==
    /\ pc' = "done"
    /\ result' = how
    /\ df' = d
    /\ stats' = st
    /\ history' = Append(history, [stage |-> stage, outcome |-> how, df |-> d])
    /\ UNCHANGED <<source, text_vars>>

\* ----------------------------------------------------------------- actions
\* A plausible slip: the failed load is answered with an empty table and True.
load_data_falls_through ==
    /\ pc = "load_data"
    /\ \/ LET f == Frame(source.columns, [i \in 1..Len(source.rows) |-> i - 1], source.rows)
          IN  Completes("load_data", f, (("original_count" :> len(f)) @@ stats))
       \/ /\ pc' = "check_missing_data"
          /\ result' = "running"
          /\ df' = <<Frame(<<>>, <<>>, <<>>)>>
          /\ stats' = stats
          /\ history' = Append(history, [stage |-> "load_data", outcome |-> "False", df |-> df'])
          /\ UNCHANGED <<source, text_in, text_pc, text_out>>

\* pd.read_csv succeeds, or raises and load_data returns False.
load_data ==
    /\ pc = "load_data"
    /\ \/ LET f == Frame(source.columns, [i \in 1..Len(source.rows) |-> i - 1], source.rows)
          IN  Completes("load_data", f, Set("original_count", len(f)))
       \/ Ends("load_data", "False", df, stats)

MissingCounts(f) ==
    [c \in Range(f.columns) |-> Cardinality({i \in 1..len(f) : isna(f.rows[i][c])})]

\* self.df[critical_cols] raises KeyError when a critical column is absent.
check_missing_data ==
    /\ pc = "check_missing_data"
    /\ LET st == Set("missing_before", MissingCounts(self_df))
       IN  IF \A c \in Range(critical_cols) : HasCol(self_df, c)
           THEN Completes("check_missing_data", self_df, st)
           ELSE Ends("check_missing_data", "raised", df, st)

handle_missing_values ==
    /\ pc = "handle_missing_values"
    /\ LET f == handle_missing_values_df(self_df)
           removed == len(self_df) - len(f)
       IN  Completes("handle_missing_values", f,
                     ("count_after_missing" :> len(f)) @@ Set("rows_removed_missing", removed))

normalize_dates ==
    /\ pc = "normalize_dates"
    /\ Completes("normalize_dates", normalize_dates_df(self_df), stats)

clean_text ==
    /\ pc = "clean_text"
    /\ LET f == clean_text_df(self_df)
           removed == len(self_df) - len(f)
       IN  Completes("clean_text", f,
                     ("count_after_cleaning" :> len(f)) @@ Set("empty_reviews_removed", removed))

remove_duplicates ==
    /\ pc = "remove_duplicates"
    /\ LET f == drop_duplicates(self_df)
       IN  Completes("remove_duplicates", f, Set("duplicates_removed", len(self_df) - len(f)))

filter_non_english_reviews ==
    /\ pc = "filter_non_english_reviews"
    /\ LET f == filter_non_english_df(self_df)
       IN  Completes("filter_non_english_reviews", f,
                     Set("amharic_reviews_removed", len(self_df) - len(f)))

validate_ratings ==
    /\ pc = "validate_ratings"
    /\ Completes("validate_ratings", validate_ratings_df(self_df),
                 Set("invalid_ratings_removed", len(invalid_ratings(self_df))))

\* The projection is assigned to self.df before sort_values can raise.
prepare_final_output ==
    /\ pc = "prepare_final_output"
    /\ IF SortRaises(projected_df(self_df))
       THEN Ends("prepare_final_output", "raised", Some(projected_df(self_df)), stats)
       ELSE Completes("prepare_final_output", prepare_final_output_df(self_df), stats)

\* to_csv succeeds, or raises and save_data returns False.
save_data ==
    /\ pc = "save_data"
    /\ \/ Completes("save_data", self_df, Set("final_count", len(self_df)))
       \/ Ends("save_data", "False", df, stats)

\* The report reads self.stats and self.df and changes neither.
generate_report ==
    /\ pc = "generate_report"
    /\ Completes("generate_report", self_df, stats)

\* Text cleaning alone: clean_review_text applied to a cell, then to its own result.
apply_clean ==
    /\ text_pc = "input"
    /\ text_out' = <<clean_review_text(text_in)>>
    /\ text_pc' = "once"
    /\ UNCHANGED <<text_in, pipeline_vars>>

reapply_clean ==
    /\ text_pc = "once"
    /\ text_out' = Append(text_out, clean_review_text(Val(text_out[1])))
    /\ text_pc' = "twice"
    /\ UNCHANGED <<text_in, pipeline_vars>>

\* ------------------------------------------------------------------ inputs
\* The order of the columns in the file (not the order of output_columns).
CsvOrder ==
    <<"reply_content", "text_length", "bank_name", "user_name", "bank_code",
      "review_date", "rating", "review_text", "review_year">>

BaseCols == {"review_text", "rating", "bank_name", "bank_code", "review_date", "reply_content"}

\* Four families of files: "missing" varies the NaN of the critical cells,
\* "content" the texts and ratings, "keys" the sort keys, "schema" the columns
\* present and the column the output drops.
Profiles == {"missing", "content", "keys", "schema"}

Schemas(p) ==
    IF p = "schema"
    THEN {Range(critical_cols) \cup S : S \in SUBSET {"bank_code", "review_date", "reply_content"}}
         \cup {BaseCols \cup {"text_length", "review_year", "user_name"}}
         \cup {{"review_text", "bank_name", "bank_code", "review_date"}}
    ELSE {BaseCols}

TextA == <<97>>
TextATrail == <<97, 32>>
TextBlank == <<32>>
TextAmharic == <<4656>>

DateMorning == <<2024, 1, 5, 10>>
DateEvening == <<2024, 1, 5, 18>>
DateEarlier == <<2023, 12, 31, 9>>
DateInvalid == <<2024, 13, 5, 10>>

InputCells(p, c) ==
    CASE c = "review_text" ->
            IF p = "missing" THEN {NaN, Val(TextBlank), Val(TextA)}
            ELSE IF p = "content"
                 THEN {Val(TextBlank), Val(TextA), Val(TextATrail), Val(TextAmharic)}
            ELSE IF p = "schema" THEN {Val(TextA), Val(TextATrail)}
            ELSE {Val(TextA)}
      [] c = "rating" ->
            IF p = "missing" THEN {NaN, Val(MinRating - 1), Val(MaxRating)}
            ELSE IF p = "content"
                 THEN {Val(MinRating - 1), Val(MinRating), Val(MaxRating), Val(MaxRating + 1)}
            ELSE {Val(MaxRating)}
      [] c = "bank_name" -> IF p = "missing" THEN {NaN, Val("CBE")} ELSE {Val("CBE")}
      [] c = "bank_code" -> IF p = "keys" THEN {NaN, Val(1), Val(2)} ELSE {Val(1)}
      [] c = "review_date" ->
            IF p = "keys" THEN {NaN, Val(DateMorning), Val(DateEvening), Val(DateEarlier),
                                Val(DateInvalid)}
            ELSE IF p = "schema" THEN {Val(DateMorning), Val(DateInvalid)}
            ELSE {Val(DateMorning)}
      [] c = "reply_content" -> IF p = "schema" THEN {NaN, Val("thanks")} ELSE {Val("thanks")}
      [] c = "user_name" -> {NaN, Val("Anonymous")}
      [] c = "text_length" -> {Val(9)}
      [] c = "review_year" -> {Val(1999)}

RECURSIVE RowsOver(_, _)
RowsOver(p, cs) ==
    IF Len(cs) = 0 THEN {<<>>}
    ELSE {(Head(cs) :> v) @@ r : v \in InputCells(p, Head(cs)), r \in RowsOver(p, Tail(cs))}

Files(p, S) ==
    LET cols == SelectSeq(CsvOrder, LAMBDA c : c \in S)
    IN  {[columns |-> cols, rows |-> t] :
            t \in UNION {[1..n -> RowsOver(p, cols)] : n \in 0..MaxRows}}

Alphabet == {97, 32, 9, 10, 4656}
Strings == UNION {[1..n -> Alphabet] : n \in 0..MaxLen}

\* ---------------------------------------------------------- specifications
PipelineIdle ==
    /\ source = [columns |-> <<>>, rows |-> <<>>]
    /\ pc = "off"
    /\ result = "off"
    /\ df = None
    /\ stats = <<>>
    /\ history = <<>>

TextIdle ==
    /\ text_in = NaN
    /\ text_pc = "off"
    /\ text_out = <<>>

\* The state after __init__, one file at input_path.
Init ==
    /\ \E p \in Profiles : \E S \in Schemas(p) : source \in Files(p, S)
    /\ pc = "load_data"
    /\ result = "running"
    /\ df = None
    /\ stats = <<>>
    /\ history = <<>>
    /\ TextIdle

Next ==
    \/ load_data
    \/ check_missing_data
    \/ handle_missing_values
    \/ normalize_dates
    \/ clean_text
    \/ remove_duplicates
    \/ filter_non_english_reviews
    \/ validate_ratings
    \/ prepare_final_output
    \/ save_data
    \/ generate_report

Spec == Init /\ [][Next]_vars

InitText ==
    /\ text_in \in {NaN} \cup {Val(s) : s \in Strings}
    /\ text_pc = "input"
    /\ text_out = <<>>
    /\ PipelineIdle

NextText == apply_clean \/ reapply_clean

SpecText == InitText /\ [][NextText]_vars

\* -------------------------------------------------------------- vocabulary
\* A stage has run (it may have ended the run), or has returned normally.
Ran(stage) == \E i \in 1..Len(history) : history[i].stage = stage
Completed(stage) ==
    \E i \in 1..Len(history) : history[i].stage = stage /\ history[i].outcome = "returned"
\* self.df as the stage left it, and as the stage found it.
After(stage) == history[StageNo(stage)].df[1]
Before(stage) == history[StageNo(stage) - 1].df[1]

RowBag(rows) == [r \in Range(rows) |-> Cardinality({i \in 1..Len(rows) : rows[i] = r})]
Restrict(r, cols) == [k \in Range(cols) |-> r[k]]

\* Row i of the file, classified from the file alone.
SourceHas(c) == c \in Range(source.columns)
MissingRow(i) == \E c \in Range(critical_cols) : isna(source.rows[i][c])
BlankRow(i) ==
    /\ ~ MissingRow(i)
    /\ LET t == V(source.rows[i]["review_text"]) IN \A k \in 1..Len(t) : t[k] \in Whitespace
Kept3(i) == ~ MissingRow(i) /\ ~ BlankRow(i)
DatesNormalized ==
    /\ SourceHas("review_date")
    /\ \A i \in 1..Len(source.rows) :
          ~ MissingRow(i) => Parseable(source.rows[i]["review_date"])
FillDefault(c) ==
    CASE c = "user_name" -> "Anonymous" [] c = "thumbs_up" -> 0 [] c = "reply_content" -> ""
Filled(c, a) ==
    IF c \in {"user_name", "thumbs_up", "reply_content"} /\ isna(a) THEN Val(FillDefault(c)) ELSE a
SameCell(c, a, b) ==
    CASE c = "review_text" -> clean_review_text(a) = clean_review_text(b)
      [] c = "text_length" -> TRUE
      [] c = "review_date" -> IF DatesNormalized THEN to_date(a) = to_date(b) ELSE a = b
      [] c \in {"review_year", "review_month"} -> DatesNormalized \/ a = b
      [] OTHER -> Filled(c, a) = Filled(c, b)
SameRow(i, j) ==
    \A c \in Range(source.columns) : SameCell(c, source.rows[i][c], source.rows[j][c])
DuplicateRow(i) == Kept3(i) /\ \E j \in 1..(i - 1) : Kept3(j) /\ SameRow(i, j)
AmharicRow(i) ==
    /\ Kept3(i) /\ ~ DuplicateRow(i)
    /\ LET t == V(source.rows[i]["review_text"])
       IN  \E k \in 1..Len(t) : t[k] \in AmharicLo..AmharicHi
InvalidRow(i) ==
    /\ Kept3(i) /\ ~ DuplicateRow(i) /\ ~ AmharicRow(i)
    /\ V(source.rows[i]["rating"]) \notin MinRating..MaxRating
Count(P(_)) == Cardinality({i \in 1..Len(source.rows) : P(i)})

\* ------------------------------------------------------------------ claims
NoTwoEqual(rows) == \A i, j \in 1..Len(rows) : i < j => rows[i] # rows[j]

\* C1: from the end of remove_duplicates onward, the final table after the
\* projection of prepare_final_output included, no two rows of self.df are
\* equal on every column the table has.
C1_NoDuplicateRows ==
    (Completed("remove_duplicates") /\ result # "raised") => NoTwoEqual(self_df.rows)

\* What does hold: no two rows are equal up to the projection, and after it
\* when the projection dropped no column.
DedupUntilProjection ==
    (Completed("remove_duplicates") /\ ~ Ran("prepare_final_output")) => NoTwoEqual(self_df.rows)
DedupWhenNothingDropped ==
    (Completed("prepare_final_output")
        /\ Range(Before("prepare_final_output").columns) \subseteq Range(output_columns))
    => NoTwoEqual(self_df.rows)

\* C2 as stated: the columns of the final table are the output_columns that the
\* loaded file has, in the order of output_columns.
C2_ColumnsOfLoadedSchema ==
    Completed("prepare_final_output")
    => self_df.columns = SelectSeq(output_columns, SourceHas)

\* The columns of the table on entry to prepare_final_output, from the file alone.
SchemaAtProjection ==
    Range(source.columns) \cup {"text_length"}
        \cup (IF DatesNormalized THEN {"review_year", "review_month"} ELSE {})

\* C2, amended: the columns of the final table are the output_columns that the
\* table has on entry to prepare_final_output (the loaded columns, text_length,
\* and review_year and review_month when the dates were converted), in the order
\* of output_columns; every row has exactly these columns.
C2_ColumnsOfCurrentSchema ==
    Ran("prepare_final_output")
    => /\ self_df.columns = SelectSeq(output_columns, LAMBDA c : c \in SchemaAtProjection)
       /\ \A i \in 1..len(self_df) : DOMAIN self_df.rows[i] = Range(self_df.columns)

\* A final table with derived columns the file lacked and without a column it had.
C2_Witness ==
    /\ Completed("prepare_final_output")
    /\ ~ SourceHas("text_length") /\ ~ SourceHas("review_year") /\ SourceHas("reply_content")
    /\ HasCol(self_df, "text_length") /\ HasCol(self_df, "review_year")
    /\ ~ HasCol(self_df, "reply_content")
    /\ len(self_df) > 0

\* C3: when the file has the critical columns, process() is never left by an
\* exception, whichever other columns are absent.
C3_NeverRaises ==
    (\A c \in Range(critical_cols) : SourceHas(c)) => result # "raised"

\* Comparison of two cells as Python compares them: false when one is NaN.
CellLeq(col, a, b) == notna(a) /\ notna(b) /\ ~ KeyLess(col, V(b), V(a))
CellEq(a, b) == notna(a) /\ notna(b) /\ V(a) = V(b)

\* The rows that survived validate_ratings, on the columns of the final table.
SurvivorsProjected ==
    LET f == After("validate_ratings")
    IN  [i \in 1..len(f) |-> Restrict(f.rows[i], self_df.columns)]

\* C4 as stated: in the final table bank_code is non-decreasing over adjacent
\* rows and, between adjacent rows of equal bank_code, review_date is
\* non-increasing; the final rows are a permutation of the validated rows.
C4_SortedByKeys ==
    Completed("prepare_final_output")
    => /\ \A i \in 1..(len(self_df) - 1) :
            LET a == self_df.rows[i]
                b == self_df.rows[i + 1]
            IN  /\ CellLeq("bank_code", a["bank_code"], b["bank_code"])
                /\ CellEq(a["bank_code"], b["bank_code"])
                      => CellLeq("review_date", b["review_date"], a["review_date"])
       /\ RowBag(self_df.rows) = RowBag(SurvivorsProjected)

\* C4, amended: among adjacent rows that both have a bank_code it is
\* non-decreasing, and the rows without one come last; within a run of one
\* bank_code (or of none) the review_dates present are non-increasing and the
\* rows without one come last; the final rows are a permutation of the
\* validated rows.
C4_SortedWithNaNLast ==
    Completed("prepare_final_output")
    => /\ \A i \in 1..(len(self_df) - 1) :
            LET a == self_df.rows[i]
                b == self_df.rows[i + 1]
            IN  /\ isna(a["bank_code"]) => isna(b["bank_code"])
                /\ (notna(a["bank_code"]) /\ notna(b["bank_code"]))
                      => V(a["bank_code"]) <= V(b["bank_code"])
                /\ a["bank_code"] = b["bank_code"]
                      => /\ isna(a["review_date"]) => isna(b["review_date"])
                         /\ (notna(a["review_date"]) /\ notna(b["review_date"]))
                               => ~ TupleLess(V(a["review_date"]), V(b["review_date"]))
       /\ RowBag(self_df.rows) = RowBag(SurvivorsProjected)

\* A final table the sort reordered, with a row that has no bank_code.
C4_Witness ==
    /\ Completed("prepare_final_output")
    /\ len(self_df) >= 2
    /\ self_df.rows[1] = SurvivorsProjected[2]
    /\ self_df.rows[1] # self_df.rows[2]
    /\ notna(self_df.rows[1]["bank_code"]) /\ isna(self_df.rows[2]["bank_code"])

\* C5: when the run succeeds, every row of the file that is gone is counted by
\* the first stage that removes it and by no other, so final_count is
\* original_count less the five removal counts; check_missing_data,
\* normalize_dates and prepare_final_output leave the number of rows alone.
C5_RowAccounting ==
    Completed("save_data")
    => /\ stats["original_count"] = Len(source.rows)
       /\ stats["rows_removed_missing"] = Count(MissingRow)
       /\ stats["empty_reviews_removed"] = Count(BlankRow)
       /\ stats["duplicates_removed"] = Count(DuplicateRow)
       /\ stats["amharic_reviews_removed"] = Count(AmharicRow)
       /\ stats["invalid_ratings_removed"] = Count(InvalidRow)
       /\ stats["final_count"] = len(self_df)
       /\ stats["final_count"] =
             stats["original_count"] - stats["rows_removed_missing"]
                - stats["empty_reviews_removed"] - stats["duplicates_removed"]
                - stats["amharic_reviews_removed"] - stats["invalid_ratings_removed"]
       /\ \A s \in {"check_missing_data", "normalize_dates", "prepare_final_output"} :
             len(After(s)) = len(Before(s))

\* A successful run over two equal rows of whitespace-only text.
C5_Witness ==
    /\ Completed("save_data")
    /\ Len(source.rows) = 2
    /\ source.rows[1] = source.rows[2]
    /\ BlankRow(1)
    /\ stats["empty_reviews_removed"] = 2
    /\ stats["duplicates_removed"] = 0

\* C6: when load_data fails, process() returns False at once: no other stage
\* runs, self.df stays None and self.stats stays empty.  In every run the stages
\* run in the fixed order, each after the one before it returned.
C6_LoadFailureHalts ==
    /\ \A i \in 1..Len(history) :
          /\ history[i].stage = Stages[i]
          /\ i < Len(history) => history[i].outcome = "returned"
    /\ pc # "done" => (pc = Stages[Len(history) + 1] /\ result = "running")
    /\ (Len(history) >= 1 /\ history[1].outcome = "False")
          => /\ Len(history) = 1
             /\ pc = "done"
             /\ result = "False"
             /\ df = None
             /\ DOMAIN stats = {}

\* A run whose load failed.
C6_Witness ==
    /\ Len(history) = 1
    /\ history[1].stage = "load_data"
    /\ history[1].outcome = "False"
    /\ Len(source.rows) > 0
    /\ pc = "done"

TextPairs(f) ==
    [i \in 1..len(f) |-> <<f.rows[i]["review_text"], f.rows[i]["text_length"]>>]
BagWithin(a, b) == \A x \in DOMAIN a : x \in DOMAIN b /\ a[x] <= b[x]

\* C7: from the end of clean_text onward every row has a review_text that is
\* not empty and a text_length equal to its number of characters, and the
\* (review_text, text_length) pairs are among those clean_text left.
C7_TextLengthConsistent ==
    Completed("clean_text")
    => /\ \A i \in 1..len(self_df) :
            LET r == self_df.rows[i]
            IN  /\ notna(r["review_text"]) /\ notna(r["text_length"])
                /\ Len(V(r["review_text"])) > 0
                /\ V(r["text_length"]) = Len(V(r["review_text"]))
       /\ BagWithin(RowBag(TextPairs(self_df)), RowBag(TextPairs(After("clean_text"))))

\* A row whose text the cleaning shortened, after clean_text.
C7_Witness ==
    /\ pc = "remove_duplicates"
    /\ len(self_df) >= 1
    /\ self_df.index[1] = 0
    /\ source.rows[1]["review_text"] = Val(TextATrail)
    /\ self_df.rows[1]["review_text"] = Val(TextA)
    /\ self_df.rows[1]["text_length"] = Val(1)

\* C8: from the end of validate_ratings onward every rating is within
\* MinRating..MaxRating, and invalid_ratings_removed is recorded and equals the
\* number of rows out of that range on entry to the stage.
C8_RatingsInRange ==
    Completed("validate_ratings")
    => /\ \A i \in 1..len(self_df) :
            /\ notna(self_df.rows[i]["rating"])
            /\ V(self_df.rows[i]["rating"]) \in MinRating..MaxRating
       /\ "invalid_ratings_removed" \in DOMAIN stats
       /\ LET f == Before("validate_ratings")
          IN  stats["invalid_ratings_removed"] =
                 Cardinality({i \in 1..len(f) : V(f.rows[i]["rating"]) \notin MinRating..MaxRating})

\* validate_ratings removed a row below the range and kept a row within it.
C8_Witness ==
    /\ pc = "prepare_final_output"
    /\ stats["invalid_ratings_removed"] = 1
    /\ len(self_df) = 1
    /\ \E i \in 1..len(Before("validate_ratings")) :
          Before("validate_ratings").rows[i]["rating"] = Val(MinRating - 1)

\* C9: from the end of handle_missing_values onward no row has NaN in
\* review_text, rating or bank_name, and the rows handle_missing_values left are
\* exactly the rows of the file with no NaN in these three columns.
C9_CriticalNotNull ==
    Completed("handle_missing_values")
    => /\ \A i \in 1..len(self_df) : \A c \in Range(critical_cols) : notna(self_df.rows[i][c])
       /\ After("handle_missing_values").index
             = SelectSeq([i \in 1..Len(source.rows) |-> i - 1], LAMBDA k : ~ MissingRow(k + 1))

\* handle_missing_values dropped a row with only bank_name missing and kept another.
C9_Witness ==
    /\ pc = "normalize_dates"
    /\ Len(source.rows) = 2
    /\ isna(source.rows[1]["bank_name"])
    /\ notna(source.rows[1]["review_text"]) /\ notna(source.rows[1]["rating"])
    /\ self_df.index = <<1>>

IsClean(s) ==
    /\ \A k \in 1..Len(s) : s[k] \in Whitespace => s[k] = Space
    /\ Len(s) > 0 => (s[1] # Space /\ s[Len(s)] # Space)
    /\ \A k \in 1..(Len(s) - 1) : ~ (s[k] = Space /\ s[k + 1] = Space)

\* C10: clean_review_text applied to its own result returns it unchanged, and
\* the result has no whitespace at either end and no whitespace within it but
\* single spaces.
C10_CleanIdempotent ==
    /\ text_pc \in {"once", "twice"} => IsClean(text_out[1])
    /\ text_pc = "twice" => text_out[2] = text_out[1]

\* A string with a run of tab and newline, cleaned twice.
C10_Witness ==
    /\ text_pc = "twice"
    /\ text_in = Val(<<97, 9, 10, 97>>)
    /\ text_out = << <<97, Space, 97>>, <<97, Space, 97>> >>

====
